---- MODULE Spec2Model ----
(***************************************************************************)
(* Model of the hostblock record store (hb::Data, src/hb/src/data.cpp).    *)
(*                                                                         *)
(* The store file is modelled byte for byte as a sequence of one-character *)
(* strings, so that the fixed-width formatting of saveData / addAddress,   *)
(* the line parser of loadData and the byte scan of updateAddress /        *)
(* removeAddress are the real algorithms working on the real layout        *)
(* (1 + 39 + 20 + 10 + 10 + 10 + 1 + 1 bytes and a newline).               *)
(*                                                                         *)
(* std::fstream is modelled as libstdc++ implements it: one joint file     *)
(* position for reading and writing, a write after a read goes to the      *)
(* logical position of the stream.                                         *)
(***************************************************************************)
EXTENDS Naturals, Integers, Sequences, FiniteSets, TLC

VARIABLES
    file,                \* bytes of the store file config->dataFilePath
    fileExists,          \* whether the store file exists
    backups,             \* backup files: name |-> bytes
    suspiciousAddresses, \* Data::suspiciousAddresses, address |-> record
    logGroups,           \* Config::logGroups
    last,                \* the store operation that ran last and its result
    steps                \* number of operations so far

vars == <<file, fileExists, backups, suspiciousAddresses, logGroups, last, steps>>

----------------------------------------------------------------------------
(* Bounds of the model *)

\* number of operations (store calls, engine writes, restarts) of a run
MaxSteps == 4

----------------------------------------------------------------------------
(* Layout of the store file, data.cpp:15-40 *)

AddrWidth     == 39
LastActWidth  == 20
CounterWidth  == 10
BookmarkWidth == 20
\* length of an address line without its newline: loadData's line.length() == 92
DataLineLen   == 92
\* bytes updateAddress / removeAddress skip after a non matching address
SkipAfterAddr == 53
\* bytes updateAddress / removeAddress skip after the type byte of another line
SkipOther     == 41
\* size argument of f.get(fAddress, 40), and the seek back of removeAddress
AddrBufLen    == 40

SP == " "
NL == "\n"

\* the characters of the model in ASCII order; Ord gives std::string's order
Alphabet == <<"\n", " ", "/", "0", "1", "2", "3", "4", "5", "6", "7", "8", "9",
              "a", "b", "d", "n", "r", "y">>

Ord(c) == CHOOSE i \in 1..Len(Alphabet) : Alphabet[i] = c

Digits == <<"0", "1", "2", "3", "4", "5", "6", "7", "8", "9">>

IsDigit(c) == \E i \in 1..10 : Digits[i] = c

DigitVal(c) == (CHOOSE i \in 1..10 : Digits[i] = c) - 1

\* std::isspace for the characters of the model
IsSpace(c) == c \in {SP, NL}

Min(S) == CHOOSE x \in S : \A y \in S : x <= y

Spaces(n) == [i \in 1..n |-> SP]

\* operator< of std::string (the key order of std::map)
RECURSIVE StrLess(_, _)
StrLess(s, t) ==
    IF t = <<>> THEN FALSE
    ELSE IF s = <<>> THEN TRUE
    ELSE IF Ord(Head(s)) # Ord(Head(t)) THEN Ord(Head(s)) < Ord(Head(t))
    ELSE StrLess(Tail(s), Tail(t))

\* the keys of a std::map in iteration order
RECURSIVE SortedKeys(_)
SortedKeys(S) ==
    IF S = {} THEN <<>>
    ELSE LET m == CHOOSE x \in S : \A y \in S \ {x} : StrLess(x, y)
         IN  <<m>> \o SortedKeys(S \ {m})

\* operator<< of an unsigned integer: decimal, no padding
RECURSIVE to_string(_)
to_string(n) ==
    IF n < 10 THEN <<Digits[n + 1]>>
    ELSE to_string(n \div 10) \o <<Digits[(n % 10) + 1]>>

\* a variant of SetW that pads nothing
SetW_NoPad(w, s) == s

\* f << std::right << std::setw(w) << s : pads on the left, never truncates
SetW(w, s) == IF Len(s) >= w THEN s ELSE Spaces(w - Len(s)) \o s

\* hb::Util::ltrim / rtrim
RECURSIVE ltrim(_)
ltrim(s) == IF s # <<>> /\ IsSpace(Head(s)) THEN ltrim(Tail(s)) ELSE s

RECURSIVE rtrim(_)
rtrim(s) ==
    IF s # <<>> /\ IsSpace(s[Len(s)]) THEN rtrim(SubSeq(s, 1, Len(s) - 1)) ELSE s

\* std::string::substr(pos, n), pos is 0-based and pos <= size
Substr(s, pos, n) ==
    SubSeq(s, pos + 1, IF pos + n > Len(s) THEN Len(s) ELSE pos + n)

\* strtoul / strtoull in base 10: leading white space, then the digits up to
\* the first other character; 0 when there is no digit
RECURSIVE DigitsValue(_, _)
DigitsValue(s, acc) ==
    IF s # <<>> /\ IsDigit(Head(s))
    THEN DigitsValue(Tail(s), acc * 10 + DigitVal(Head(s)))
    ELSE acc

strtoul(s) == DigitsValue(ltrim(s), 0)

Flag(b) == IF b THEN "y" ELSE "n"

----------------------------------------------------------------------------
(* Formatting of lines *)

\* the 53 bytes after the address field: data.cpp:229-238, 275-284, 314-323
Payload(rec) ==
    SetW(LastActWidth, to_string(rec.lastActivity))
    \o SetW(CounterWidth, to_string(rec.activityScore))
    \o SetW(CounterWidth, to_string(rec.activityCount))
    \o SetW(CounterWidth, to_string(rec.refusedCount))
    \o <<Flag(rec.whitelisted)>>
    \o <<Flag(rec.blacklisted)>>
    \o <<NL>>

AddressLine(address, rec) == <<"d">> \o SetW(AddrWidth, address) \o Payload(rec)

BookmarkLine(lf) ==
    <<"b">> \o SetW(BookmarkWidth, to_string(lf.bookmark))
    \o SetW(BookmarkWidth, to_string(lf.size))
    \o lf.path \o <<NL>>

\* all log files of the configuration, group by group
RECURSIVE AllLogFiles(_)
AllLogFiles(lg) ==
    IF lg = <<>> THEN <<>> ELSE Head(lg).logFiles \o AllLogFiles(Tail(lg))

RECURSIVE Concat(_)
Concat(ss) == IF ss = <<>> THEN <<>> ELSE Head(ss) \o Concat(Tail(ss))

\* std::map::operator[] : a missing key is inserted value-initialised
ZeroRecord ==
    [lastActivity |-> 0, activityScore |-> 0, activityCount |-> 0,
     refusedCount |-> 0, whitelisted |-> FALSE, blacklisted |-> FALSE,
     iptableRule |-> FALSE]

\* an empty std::map, after construction and after clear()
EmptyMap == [a \in {} |-> ZeroRecord]

IndexSubscript(idx, address) ==
    IF address \in DOMAIN idx THEN idx
    ELSE [a \in DOMAIN idx \cup {address} |->
            IF a = address THEN ZeroRecord ELSE idx[a]]

\* the lines std::getline yields: split at newlines, a last line without a
\* newline counts, nothing after a final newline
RECURSIVE GetLines(_, _)
GetLines(f, start) ==
    IF start > Len(f) THEN <<>>
    ELSE LET ends == {i \in start..Len(f) : f[i] = NL}
         IN  IF ends = {} THEN <<SubSeq(f, start, Len(f))>>
             ELSE <<SubSeq(f, start, Min(ends) - 1)>> \o GetLines(f, Min(ends) + 1)


----------------------------------------------------------------------------
(* saveData, data.cpp:218-262 *)

\* the bytes saveData writes: one 'd' line per entry of the map in key order,
\* then one 'b' line per log file of the configuration
SaveBytes(idx, lg) ==
    LET keys == SortedKeys(DOMAIN idx)
        lfs  == AllLogFiles(lg)
    IN  Concat([i \in 1..Len(keys) |-> AddressLine(keys[i], idx[keys[i]])])
        \o Concat([i \in 1..Len(lfs) |-> BookmarkLine(lfs[i])])

\* a variant of saveData that opens the store file for appending
saveData_Append(st, canWrite) ==
    IF canWrite
    THEN [st EXCEPT !.file = @ \o SaveBytes(st.index, st.logGroups),
                    !.fileExists = TRUE, !.ret = TRUE]
    ELSE [st EXCEPT !.ioError = TRUE, !.ret = FALSE]

\* canWrite: whether std::ofstream can open the store file for writing
saveData(st, canWrite) ==
    IF canWrite
    THEN [st EXCEPT !.file = SaveBytes(st.index, st.logGroups),
                    !.fileExists = TRUE, !.ret = TRUE]
    ELSE [st EXCEPT !.ioError = TRUE, !.ret = FALSE]

----------------------------------------------------------------------------
(* removeFile, data.cpp:433-437 *)

removeFile(st, filePath) == [st EXCEPT !.ret = FALSE]

----------------------------------------------------------------------------
(* addFile, updateFile, data.cpp:415-428 *)

addFile(st, filePath) == [st EXCEPT !.ret = FALSE]

updateFile(st, filePath) == [st EXCEPT !.ret = FALSE]

----------------------------------------------------------------------------
(* loadData, data.cpp:80-213 *)

\* a variant of ParseRecord that takes both flags as they are read
ParseRecord_FlagsAsRead(line) ==
    [lastActivity  |-> strtoul(Substr(line, 40, 20)),
     activityScore |-> strtoul(Substr(line, 60, 10)),
     activityCount |-> strtoul(Substr(line, 70, 10)),
     refusedCount  |-> strtoul(Substr(line, 80, 10)),
     whitelisted   |-> Substr(line, 90, 1) = <<"y">>,
     blacklisted   |-> Substr(line, 91, 1) = <<"y">>,
     iptableRule   |-> FALSE]

\* data.cpp:107-128: the record of a 'd' line of length 92
ParseRecord(line) ==
    LET w == Substr(line, 90, 1) = <<"y">>
        b == Substr(line, 91, 1) = <<"y">>
    IN  [lastActivity  |-> strtoul(Substr(line, 40, 20)),
         activityScore |-> strtoul(Substr(line, 60, 10)),
         activityCount |-> strtoul(Substr(line, 70, 10)),
         refusedCount  |-> strtoul(Substr(line, 80, 10)),
         whitelisted   |-> w,
         blacklisted   |-> IF w /\ b THEN FALSE ELSE b,
         iptableRule   |-> FALSE]

ParseAddress(line) == ltrim(Substr(line, 1, 39))

\* a variant of MapInsert that assigns as operator[] does: the last value wins
MapInsert_Overwrite(idx, address, data) ==
    [a \in DOMAIN idx \cup {address} |-> IF a = address THEN data ELSE idx[a]]

\* std::map::insert: an existing key keeps its value
MapInsert(idx, address, data) ==
    IF address \in DOMAIN idx THEN idx
    ELSE [a \in DOMAIN idx \cup {address} |->
            IF a = address THEN data ELSE idx[a]]

\* data.cpp:144-155: positions <<group, file>> of the log files with this path
PathMatches(lg, path) ==
    {p \in UNION {{<<g, i>> : i \in 1..Len(lg[g].logFiles)} : g \in 1..Len(lg)} :
        lg[p[1]].logFiles[p[2]].path = path}

\* the first of them in iteration order (the loops break at the first match)
FirstMatch(lg, path) ==
    CHOOSE p \in PathMatches(lg, path) :
        \A q \in PathMatches(lg, path) :
            p[1] < q[1] \/ (p[1] = q[1] /\ p[2] <= q[2])

SetBookmarkAt(lg, p, bookmark, size) ==
    [lg EXCEPT ![p[1]].logFiles[p[2]].bookmark = bookmark,
               ![p[1]].logFiles[p[2]].size = size]

\* data.cpp:102-161: the loop over the lines, from line i on.  st.threw is set
\* when std::string::substr throws std::out_of_range (pos > size), which
\* nothing catches.
RECURSIVE ReadLines(_, _, _)
ReadLines(lines, i, st) ==
    IF i > Len(lines) THEN st
    ELSE
      LET line == lines[i] IN
      IF Substr(line, 0, 1) = <<"d">> /\ Len(line) = DataLineLen THEN
          LET address == ParseAddress(line) IN
          ReadLines(lines, i + 1,
              [st EXCEPT !.index = MapInsert(st.index, address, ParseRecord(line)),
                         !.duplicatesFound = @ \/ address \in DOMAIN st.index])
      ELSE IF Substr(line, 0, 1) = <<"b">> THEN
          IF Len(line) < 2 * BookmarkWidth + 1 THEN [st EXCEPT !.threw = TRUE]
          ELSE
            LET bookmark    == strtoul(Substr(line, 1, 20))
                size        == strtoul(Substr(line, 21, 20))
                logFilePath == rtrim(ltrim(Substr(line, 41, Len(line))))
            IN  IF PathMatches(st.logGroups, logFilePath) # {}
                THEN ReadLines(lines, i + 1,
                        [st EXCEPT !.logGroups =
                            SetBookmarkAt(@, FirstMatch(@, logFilePath), bookmark, size)])
                ELSE ReadLines(lines, i + 1, removeFile(st, logFilePath))
      ELSE ReadLines(lines, i + 1, st)

\* data.cpp:169-183: the name of the backup file, after the data file path
Pad2(n) == IF n < 10 THEN <<"0">> \o to_string(n) ELSE to_string(n)

\* a variant of BackupName that prints the fields without zero padding
BackupName_NoPad(tm) ==
    <<"_">> \o to_string(tm.tm_year + 1900) \o to_string(tm.tm_mon + 1)
    \o to_string(tm.tm_mday) \o to_string(tm.tm_hour) \o to_string(tm.tm_min)
    \o to_string(tm.tm_sec) \o <<".", "b", "c", "k">>

BackupName(tm) ==
    <<"_">> \o to_string(tm.tm_year + 1900) \o Pad2(tm.tm_mon + 1)
    \o Pad2(tm.tm_mday) \o Pad2(tm.tm_hour) \o Pad2(tm.tm_min) \o Pad2(tm.tm_sec)
    \o <<".", "b", "c", "k">>

\* a variant of RecoverDuplicates that renames without looking for a file of
\* the backup name, which std::rename then replaces
RecoverDuplicates_Overwrite(s1, tm, renameOk, canWrite) ==
    LET newDataFileName == BackupName(tm) IN
    IF ~renameOk THEN [s1 EXCEPT !.ioError = TRUE, !.ret = FALSE]
    ELSE saveData(
           [s1 EXCEPT !.backups =
                 [n \in DOMAIN @ \cup {newDataFileName} |->
                    IF n = newDataFileName THEN s1.file ELSE @[n]],
               !.file = <<>>, !.fileExists = FALSE, !.renamed = TRUE],
           canWrite)

\* data.cpp:166-201: duplicates were found.  The store file is renamed to the
\* backup name unless a file of that name exists, then saveData writes a new
\* store file.  renameOk: whether std::rename succeeds
RecoverDuplicates(s1, tm, renameOk, canWrite) ==
    LET newDataFileName == BackupName(tm) IN
    IF newDataFileName \notin DOMAIN s1.backups THEN
        IF ~renameOk THEN [s1 EXCEPT !.ioError = TRUE, !.ret = FALSE]
        ELSE saveData(
               [s1 EXCEPT !.backups =
                     [n \in DOMAIN @ \cup {newDataFileName} |->
                        IF n = newDataFileName THEN s1.file ELSE @[n]],
                   !.file = <<>>, !.fileExists = FALSE, !.renamed = TRUE],
               canWrite)
    ELSE [s1 EXCEPT !.ret = FALSE]

\* a variant of loadData that reads the file into the index as it is
loadData_NoClear(st, tm, renameOk, canWrite) ==
    IF st.fileExists THEN
        LET s1 == ReadLines(GetLines(st.file, 1), 1,
                            [st EXCEPT !.duplicatesFound = FALSE, !.opened = TRUE])
        IN  IF s1.threw THEN s1
            ELSE IF s1.duplicatesFound THEN RecoverDuplicates(s1, tm, renameOk, canWrite)
            ELSE [s1 EXCEPT !.ret = TRUE]
    ELSE saveData(st, canWrite)

\* tm: the local time; canWrite: whether saveData can open the store file
loadData(st, tm, renameOk, canWrite) ==
    IF st.fileExists THEN
        LET s1 == ReadLines(GetLines(st.file, 1), 1,
                      [st EXCEPT !.index = EmptyMap, !.duplicatesFound = FALSE,
                                 !.opened = TRUE])
        IN  IF s1.threw THEN s1
            ELSE IF s1.duplicatesFound
                 THEN RecoverDuplicates(s1, tm, renameOk, canWrite)
                 ELSE [s1 EXCEPT !.ret = TRUE]
    ELSE saveData(st, canWrite)

----------------------------------------------------------------------------
(* The byte scan of updateAddress and removeAddress, data.cpp:307-339 and   *)
(* 369-393.  pos is the offset of the stream (0-based), fail its failbit;   *)
(* eofbit is never set at the head of the loop, seekg clears it.            *)

\* f.get(fAddress, 40) at pos: the characters it stores, at most 39, up to a
\* newline (left in the stream) or the end of the file
GetAddress(f, pos) ==
    LET stops == {i \in (pos + 1)..Len(f) : f[i] = NL \/ i = pos + AddrBufLen}
        stop  == IF stops = {} THEN Len(f) + 1 ELSE Min(stops)
    IN  SubSeq(f, pos + 1, stop - 1)

\* the scan from the head of `while (f.get(c))`: where and in which stream
\* state the matching address was read, or found = FALSE
RECURSIVE FindRecord(_, _, _, _)
FindRecord(f, pos, fail, address) ==
    IF fail \/ pos >= Len(f) THEN [found |-> FALSE, pos |-> pos, good |-> FALSE]
    ELSE IF f[pos + 1] = "d" THEN
        LET fAddress == GetAddress(f, pos + 1)
            after    == pos + 1 + Len(fAddress)
            failbit  == fAddress = <<>>
            eofbit   == after >= Len(f)
        IN  IF ltrim(fAddress) = address
            THEN [found |-> TRUE, pos |-> after, good |-> ~failbit /\ ~eofbit,
                  fail |-> failbit]
            ELSE FindRecord(f, IF failbit THEN after ELSE after + SkipAfterAddr,
                            failbit, address)
    ELSE
        LET from == pos + 1 + SkipOther
            nls  == {i \in (from + 1)..Len(f) : f[i] = NL}
        IN  IF nls = {} THEN [found |-> FALSE, pos |-> Len(f), good |-> FALSE]
            ELSE FindRecord(f, Min(nls), FALSE, address)

\* a variant of WriteAt that inserts the bytes and moves the rest of the file
WriteAt_Insert(f, pos, bytes) ==
    SubSeq(f, 1, pos) \o bytes \o SubSeq(f, pos + 1, Len(f))

\* a write of bytes at offset pos: overwrites, and extends the file at its end
WriteAt(f, pos, bytes) ==
    SubSeq(f, 1, pos) \o bytes \o SubSeq(f, pos + Len(bytes) + 1, Len(f))

----------------------------------------------------------------------------
(* addAddress, updateAddress, removeAddress: data.cpp:267-410 *)

\* canWrite: whether std::ofstream can open the store file for appending
addAddress(st, address, canWrite) ==
    IF canWrite
    THEN LET idx == IndexSubscript(st.index, address)
         IN  [st EXCEPT !.index = idx,
                        !.file = @ \o AddressLine(address, idx[address]),
                        !.fileExists = TRUE, !.opened = TRUE, !.ret = TRUE]
    ELSE [st EXCEPT !.ioError = TRUE, !.ret = FALSE]

\* a variant of updateAddress that appends the line when the scan finds none
updateAddress_Upsert(st, address, canOpen) ==
    IF st.fileExists /\ canOpen THEN
        LET r   == FindRecord(st.file, 0, FALSE, address)
            idx == IndexSubscript(st.index, address)
        IN  [st EXCEPT !.index = idx,
                       !.file = IF r.found
                                THEN WriteAt(@, r.pos, Payload(idx[address]))
                                ELSE @ \o AddressLine(address, idx[address]),
                       !.opened = TRUE, !.found = r.found, !.ret = TRUE]
    ELSE [st EXCEPT !.ioError = TRUE, !.ret = FALSE]

\* canOpen: whether std::fstream can open the existing store file for update
updateAddress(st, address, canOpen) ==
    IF st.fileExists /\ canOpen THEN
        LET r == FindRecord(st.file, 0, FALSE, address) IN
        IF r.found
        THEN LET idx == IndexSubscript(st.index, address)
             IN  [st EXCEPT !.index = idx,
                            !.file = IF r.good
                                     THEN WriteAt(@, r.pos, Payload(idx[address]))
                                     ELSE @,
                            !.opened = TRUE, !.found = TRUE, !.ret = TRUE]
        ELSE [st EXCEPT !.opened = TRUE, !.ret = FALSE]
    ELSE [st EXCEPT !.ioError = TRUE, !.ret = FALSE]

removeAddress(st, address, canOpen) ==
    IF st.fileExists /\ canOpen THEN
        LET r == FindRecord(st.file, 0, FALSE, address) IN
        IF r.found
        THEN \* f.seekg(-40, f.cur) clears eofbit and fails before offset 0
             LET seekOk == ~r.fail /\ r.pos >= AddrBufLen
             IN  [st EXCEPT !.file = IF seekOk
                                     THEN WriteAt(@, r.pos - AddrBufLen, <<"r">>)
                                     ELSE @,
                            !.opened = TRUE, !.found = TRUE, !.ret = TRUE]
        ELSE [st EXCEPT !.opened = TRUE, !.ret = FALSE]
    ELSE [st EXCEPT !.ioError = TRUE, !.ret = FALSE]

----------------------------------------------------------------------------
(* Inputs of the model *)

A39 == [i \in 1..AddrWidth |-> "2"]

\* addresses: a short one, one that fills the 39 columns, one with a leading
\* space
Addresses == {<<"1">>, A39}

Canonical(address) == address = ltrim(address) /\ \A i \in 1..Len(address) : address[i] # NL

RecA ==
    [lastActivity |-> 1700000000, activityScore |-> 1234567890, activityCount |-> 12,
     refusedCount |-> 3, whitelisted |-> FALSE, blacklisted |-> TRUE,
     iptableRule |-> TRUE]

RecB ==
    [lastActivity |-> 9, activityScore |-> 1, activityCount |-> 1,
     refusedCount |-> 0, whitelisted |-> TRUE, blacklisted |-> TRUE,
     iptableRule |-> FALSE]

Recs == {RecA, RecB}

RecC ==
    [lastActivity |-> 44, activityScore |-> 5, activityCount |-> 2,
     refusedCount |-> 1, whitelisted |-> TRUE, blacklisted |-> FALSE,
     iptableRule |-> FALSE]

LogFileOf(path) == [path |-> path, bookmark |-> 0, size |-> 0]

GroupOf(name, paths) ==
    [name |-> name, logFiles |-> [i \in 1..Len(paths) |-> LogFileOf(paths[i])],
     patterns |-> <<>>]

PathA == <<"/", "a">>

\* configurations: no log file, one log file, one log file with an empty path
\* (a line "log.path =" of the configuration file)
Configs == {<<>>, <<GroupOf(<<"a">>, <<PathA>>)>>, <<GroupOf(<<"b">>, << <<>> >>)>>}

Paths == {PathA, <<>>}

BookmarkValues == {<<7, 9>>}

Times ==
    {[tm_year |-> 126, tm_mon |-> 0, tm_mday |-> 3, tm_hour |-> 4, tm_min |-> 5, tm_sec |-> 6],
     [tm_year |-> 126, tm_mon |-> 10, tm_mday |-> 30, tm_hour |-> 23, tm_min |-> 59, tm_sec |-> 58]}

NoFiles == [n \in {} |-> <<>>]

\* a backup file an earlier run of the daemon has left (two lines for one
\* address, renamed by loadData at the first of Times)
OldBackups ==
    [n \in {BackupName(CHOOSE tm \in Times : tm.tm_mon = 0)} |->
        AddressLine(<<"1">>, ZeroRecord) \o AddressLine(<<"1">>, ZeroRecord)]

----------------------------------------------------------------------------
(* The state machine *)

\* the state a store operation starts from, with its result fields cleared
Cur ==
    [file |-> file, fileExists |-> fileExists, backups |-> backups,
     index |-> suspiciousAddresses, logGroups |-> logGroups,
     ret |-> FALSE, opened |-> FALSE, ioError |-> FALSE, found |-> FALSE,
     duplicatesFound |-> FALSE, renamed |-> FALSE, threw |-> FALSE]

Idle ==
    [op |-> "none", address |-> <<>>, bck |-> <<>>, ret |-> FALSE, opened |-> FALSE,
     ioError |-> FALSE, found |-> FALSE, duplicatesFound |-> FALSE,
     renamed |-> FALSE, threw |-> FALSE, existed |-> FALSE, changed |-> FALSE,
     afterSave |-> FALSE]

Step == steps < MaxSteps /\ steps' = steps + 1

\* the state after a store operation; last records what the operation did
Commit(st, op, address, bck) ==
    /\ Step
    /\ file' = st.file
    /\ fileExists' = st.fileExists
    /\ backups' = st.backups
    /\ suspiciousAddresses' = st.index
    /\ logGroups' = st.logGroups
    /\ last' = [op |-> op, address |-> address, bck |-> bck, ret |-> st.ret,
                opened |-> st.opened, ioError |-> st.ioError, found |-> st.found,
                duplicatesFound |-> st.duplicatesFound, renamed |-> st.renamed,
                threw |-> st.threw, existed |-> fileExists,
                changed |-> st.file # file,
                afterSave |-> last.op = "saveData" /\ last.ret]

Init ==
    /\ file = <<>>
    /\ fileExists = FALSE
    /\ backups \in {NoFiles, OldBackups}
    /\ suspiciousAddresses = EmptyMap
    /\ logGroups \in Configs
    /\ last = Idle
    /\ steps = 0

LoadData ==
    steps < MaxSteps /\ \E tm \in Times, renameOk \in BOOLEAN, canWrite \in BOOLEAN :
        \E st \in {loadData(Cur, tm, renameOk, canWrite)} :
            Commit(st, "loadData", <<>>, IF st.duplicatesFound THEN BackupName(tm) ELSE <<>>)

SaveData ==
    steps < MaxSteps /\ \E canWrite \in BOOLEAN :
        \E st \in {saveData(Cur, canWrite)} :
            Commit(st, "saveData", <<>>, <<>>)

AddAddress ==
    steps < MaxSteps /\ \E address \in Addresses, canWrite \in BOOLEAN :
        \E st \in {addAddress(Cur, address, canWrite)} :
            Commit(st, "addAddress", address, <<>>)

UpdateAddress ==
    steps < MaxSteps /\ \E address \in Addresses, canOpen \in BOOLEAN :
        \E st \in {updateAddress(Cur, address, canOpen)} :
            Commit(st, "updateAddress", address, <<>>)

RemoveAddress ==
    steps < MaxSteps /\ \E address \in Addresses, canOpen \in BOOLEAN :
        \E st \in {removeAddress(Cur, address, canOpen)} :
            Commit(st, "removeAddress", address, <<>>)

\* the monitoring engine writes an entry of the public map
SetRecord ==
    \E address \in Addresses, rec \in Recs :
        /\ Step
        /\ suspiciousAddresses' =
              [a \in DOMAIN suspiciousAddresses \cup {address} |->
                  IF a = address THEN rec ELSE suspiciousAddresses[a]]
        /\ last' = Idle
        /\ UNCHANGED <<file, fileExists, backups, logGroups>>

\* the monitoring engine erases an entry of the public map
EraseRecord ==
    \E address \in DOMAIN suspiciousAddresses :
        /\ Step
        /\ suspiciousAddresses' =
              [a \in DOMAIN suspiciousAddresses \ {address} |-> suspiciousAddresses[a]]
        /\ last' = Idle
        /\ UNCHANGED <<file, fileExists, backups, logGroups>>

\* the monitoring engine advances the bookmark of a log file
SetBookmark ==
    \E g \in 1..Len(logGroups), v \in BookmarkValues :
        \E i \in 1..Len(logGroups[g].logFiles) :
            /\ Step
            /\ logGroups' = SetBookmarkAt(logGroups, <<g, i>>, v[1], v[2])
            /\ last' = Idle
            /\ UNCHANGED <<file, fileExists, backups, suspiciousAddresses>>

\* the daemon is started again: a new Data object, the configuration read anew
Restart ==
    \E cfg \in Configs :
        /\ Step
        /\ suspiciousAddresses' = EmptyMap
        /\ logGroups' = cfg
        /\ last' = Idle
        /\ UNCHANGED <<file, fileExists, backups>>

Next ==
    \/ LoadData
    \/ SaveData
    \/ AddAddress
    \/ UpdateAddress
    \/ RemoveAddress
    \/ SetRecord
    \/ EraseRecord
    \/ SetBookmark
    \/ Restart

Spec == Init /\ [][Next]_vars

----------------------------------------------------------------------------
(* The store used as its callers are meant to use it (spec.md, section 3,   *)
(* Lifecycle): an address is inserted and appended once, mutated and        *)
(* updated, removed and erased; every open succeeds; the records keep the   *)
(* two flags exclusive and the addresses carry no white space.              *)

ProtocolRecs == {RecA, RecC}

\* the positions of the lines of f that are live address lines of address
LiveLinesFor(f, address) ==
    LET lines == GetLines(f, 1)
    IN  {k \in 1..Len(lines) :
            /\ Len(lines[k]) = DataLineLen
            /\ lines[k][1] = "d"
            /\ ltrim(SubSeq(lines[k], 2, 1 + AddrWidth)) = address}

\* the configuration as Config::load builds it: no bookmark read yet
ResetBookmarks(lg) ==
    [g \in 1..Len(lg) |->
        [lg[g] EXCEPT !.logFiles =
            [i \in 1..Len(lg[g].logFiles) |-> LogFileOf(lg[g].logFiles[i].path)]]]

PStart ==
    /\ steps = 0
    /\ \E tm \in Times :
        LET st == loadData(Cur, tm, TRUE, TRUE)
        IN  st.ret /\ Commit(st, "loadData", <<>>, <<>>)

PInsertAdd ==
    /\ steps > 0
    /\ \E address \in Addresses \ DOMAIN suspiciousAddresses, rec \in ProtocolRecs :
        /\ LiveLinesFor(file, address) = {}
        /\ LET st == addAddress(
                        [Cur EXCEPT !.index = MapInsert(@, address, rec)],
                        address, TRUE)
           IN  Commit(st, "addAddress", address, <<>>)

PMutateUpdate ==
    /\ steps > 0
    /\ \E address \in DOMAIN suspiciousAddresses, rec \in ProtocolRecs :
        \E st \in {updateAddress([Cur EXCEPT !.index[address] = rec], address, TRUE)} :
            Commit(st, "updateAddress", address, <<>>)

PRemoveErase ==
    /\ steps > 0
    /\ \E address \in DOMAIN suspiciousAddresses :
        \E st \in {removeAddress(Cur, address, TRUE)} :
            Commit([st EXCEPT !.index = [a \in DOMAIN @ \ {address} |-> @[a]]],
                   "removeAddress", address, <<>>)

PSave ==
    /\ steps > 0
    /\ LET st == saveData(Cur, TRUE)
       IN  Commit(st, "saveData", <<>>, <<>>)

\* the daemon stops without saveData and is started again on the same
\* configuration: a new Data object, then loadData
PRestartLoad ==
    /\ steps > 0
    /\ \E tm \in Times :
        LET st == loadData(
                      [Cur EXCEPT !.index = EmptyMap,
                                  !.logGroups = ResetBookmarks(@)],
                      tm, TRUE, TRUE)
        IN  Commit(st, "restartLoad", <<>>, <<>>)

NextProtocol ==
    \/ PStart
    \/ PInsertAdd
    \/ PMutateUpdate
    \/ PRemoveErase
    \/ PSave
    \/ PRestartLoad

SpecProtocol == Init /\ [][NextProtocol]_vars

----------------------------------------------------------------------------
(* saveData and loadData applied to any index of the bounded sets *)

RTAddresses == Addresses \cup {<<" ", "1">>}

RTRecs == Recs \cup {RecC}

InitRoundTrip ==
    /\ file = <<>>
    /\ fileExists = FALSE
    /\ backups = NoFiles
    /\ suspiciousAddresses \in
          UNION {[D -> RTRecs] : D \in SUBSET RTAddresses}
    /\ logGroups \in Configs
    /\ last = Idle
    /\ steps = 0

NextRoundTrip ==
    \/ SaveData
    \/ LoadData

SpecRoundTrip == InitRoundTrip /\ [][NextRoundTrip]_vars

----------------------------------------------------------------------------
(* The store operations on store files of any content: files as the daemon  *)
(* leaves them, and files damaged by a crash or by hand (a line cut short,  *)
(* an empty line, no final newline).                                        *)

\* number of operations of a run that starts from a given store file
MaxFileSteps == 2

\* 'r' over the type byte of a line
Tombstone(line) == <<"r">> \o Tail(line)

\* the first n bytes of a line, then a newline
CutLine(line, n) == SubSeq(line, 1, n) \o <<NL>>

LineOne == AddressLine(<<"1">>, RecA)

LineOneAgain == AddressLine(<<"1">>, RecC)

LineA39 == AddressLine(A39, RecB)

BookmarkA == BookmarkLine([path |-> PathA, bookmark |-> 7, size |-> 9])

BookmarkEmptyPath == BookmarkLine(LogFileOf(<<>>))

StoreFiles ==
    { <<>>,
      Tombstone(LineOneAgain) \o LineOne,            \* a removed line, a live line
      BookmarkA \o LineOne \o LineOneAgain,          \* two live lines of one address
      BookmarkEmptyPath \o LineOne,                  \* a bookmark line of 41 bytes
      LineA39 \o BookmarkA \o Tombstone(LineOne),    \* no live line for "1"
      CutLine(LineOne, 60) \o LineA39,               \* a 'd' line of length 60
      CutLine(BookmarkA, 6) \o LineOne,              \* a 'b' line of length 6
      <<NL>> \o SubSeq(LineOne, 1, DataLineLen) }    \* an empty line, no final newline

StoreIndexes ==
    {EmptyMap, [a \in {<<"1">>} |-> RecB], [a \in {<<"1">>, A39} |-> RecC]}

InitFiles ==
    /\ file \in StoreFiles
    /\ fileExists = TRUE
    /\ backups = NoFiles
    /\ suspiciousAddresses \in StoreIndexes
    /\ logGroups \in Configs
    /\ last = Idle
    /\ steps = 0

NextFiles ==
    \/ steps < MaxFileSteps /\ LoadData
    \/ steps < MaxFileSteps /\ SaveData
    \/ steps < MaxFileSteps /\ UpdateAddress
    \/ steps < MaxFileSteps /\ RemoveAddress

SpecFiles == InitFiles /\ [][NextFiles]_vars

----------------------------------------------------------------------------
(* The bookmarks of the log files: the log reader advances them, saveData   *)
(* and the bookmark point operations store them, loadData reads them back.  *)

PathB == <<"/", "b">>

\* the configurations above, and one with a log file declared in two groups
BookmarkConfigs ==
    Configs \cup {<<GroupOf(<<"a">>, <<PathA>>), GroupOf(<<"b">>, <<PathB, PathA>>)>>}

BookmarkPaths == {PathA, PathB, <<>>}

InitBookmarks ==
    /\ file = <<>>
    /\ fileExists = FALSE
    /\ backups = NoFiles
    /\ suspiciousAddresses = EmptyMap
    /\ logGroups \in BookmarkConfigs
    /\ last = Idle
    /\ steps = 0

AddFile ==
    steps < MaxSteps /\ \E filePath \in BookmarkPaths :
        \E st \in {addFile(Cur, filePath)} :
            Commit(st, "addFile", filePath, <<>>)

UpdateFile ==
    steps < MaxSteps /\ \E filePath \in BookmarkPaths :
        \E st \in {updateFile(Cur, filePath)} :
            Commit(st, "updateFile", filePath, <<>>)

RemoveFile ==
    steps < MaxSteps /\ \E filePath \in BookmarkPaths :
        \E st \in {removeFile(Cur, filePath)} :
            Commit(st, "removeFile", filePath, <<>>)

NextBookmarks ==
    \/ SetBookmark
    \/ SaveData
    \/ LoadData
    \/ AddFile
    \/ UpdateFile
    \/ RemoveFile

SpecBookmarks == InitBookmarks /\ [][NextBookmarks]_vars

----------------------------------------------------------------------------
(* The point operations and saveData from an empty store: the engine sets   *)
(* records of the index and persists them.                                  *)

InitPoint ==
    /\ file = <<>>
    /\ fileExists = FALSE
    /\ backups = NoFiles
    /\ suspiciousAddresses = EmptyMap
    /\ logGroups \in Configs
    /\ last = Idle
    /\ steps = 0

NextPoint ==
    \/ SetRecord
    \/ AddAddress
    \/ UpdateAddress
    \/ RemoveAddress
    \/ SaveData

SpecPoint == InitPoint /\ [][NextPoint]_vars

----------------------------------------------------------------------------
(* The scan of updateAddress / removeAddress call by call, data.cpp:307-339 *)
(* and 369-393: every step is one f.get(c) with what follows it up to the   *)
(* next f.get(c).  In this specification last holds the state of the scan:  *)
(* pc is "head" at `while (f.get(c))` of the outer loop, "line" at the one  *)
(* of the loop that reads to the end of a line, "done" after the outer      *)
(* loop; pos is the offset of the stream and fail its failbit.              *)

\* a variant of ScanCall whose inner loop looks at the next character and
\* leaves it in the stream
ScanCall_Peek(f, sc, address) ==
    IF sc.pc = "head" THEN
        IF sc.fail \/ sc.pos >= Len(f) THEN [sc EXCEPT !.pc = "done"]
        ELSE IF f[sc.pos + 1] = "d" THEN
            LET fAddress == GetAddress(f, sc.pos + 1)
                after    == sc.pos + 1 + Len(fAddress)
                failbit  == fAddress = <<>>
            IN  IF ltrim(fAddress) = address
                THEN [sc EXCEPT !.pc = "done", !.pos = after, !.fail = failbit,
                                !.found = TRUE]
                ELSE [sc EXCEPT !.pos = IF failbit THEN after ELSE after + SkipAfterAddr,
                                !.fail = failbit]
        ELSE [sc EXCEPT !.pc = "line", !.pos = @ + 1 + SkipOther]
    ELSE
        \* the inner f.get(c): at the end of the file it sets failbit, and the
        \* outer f.get(c) fails after it
        IF sc.pos >= Len(f) THEN [sc EXCEPT !.pc = "head", !.fail = TRUE]
        ELSE IF f[sc.pos + 1] = NL THEN [sc EXCEPT !.pc = "head", !.pos = @ + 1]
        ELSE sc

ScanCall(f, sc, address) ==
    IF sc.pc = "head" THEN
        IF sc.fail \/ sc.pos >= Len(f) THEN [sc EXCEPT !.pc = "done"]
        ELSE IF f[sc.pos + 1] = "d" THEN
            LET fAddress == GetAddress(f, sc.pos + 1)
                after    == sc.pos + 1 + Len(fAddress)
                failbit  == fAddress = <<>>
            IN  IF ltrim(fAddress) = address
                THEN [sc EXCEPT !.pc = "done", !.pos = after, !.fail = failbit,
                                !.found = TRUE]
                ELSE [sc EXCEPT !.pos = IF failbit THEN after ELSE after + SkipAfterAddr,
                                !.fail = failbit]
        ELSE [sc EXCEPT !.pc = "line", !.pos = @ + 1 + SkipOther]
    ELSE
        \* the inner f.get(c): at the end of the file it sets failbit, and the
        \* outer f.get(c) fails after it
        IF sc.pos >= Len(f) THEN [sc EXCEPT !.pc = "head", !.fail = TRUE]
        ELSE IF f[sc.pos + 1] = NL THEN [sc EXCEPT !.pc = "head", !.pos = @ + 1]
        ELSE [sc EXCEPT !.pos = @ + 1]

\* store files, and files that end within a line or hold a bare 'd'
ScanFiles ==
    StoreFiles \cup
    { <<"d">>,
      <<"d", NL, "d", " ", "1">>,
      <<"b", NL>> \o LineOne,
      SubSeq(LineA39, 1, 50) \o LineOne }

InitScan ==
    /\ file \in ScanFiles
    /\ fileExists = TRUE
    /\ backups = NoFiles
    /\ suspiciousAddresses = EmptyMap
    /\ logGroups = <<>>
    /\ \E address \in Addresses :
          last = [op |-> "scan", address |-> address, pc |-> "head", pos |-> 0,
                  fail |-> FALSE, found |-> FALSE]
    /\ steps = 0

NextScan ==
    /\ last.pc # "done"
    /\ last' = ScanCall(file, last, last.address)
    /\ UNCHANGED <<file, fileExists, backups, suspiciousAddresses, logGroups, steps>>

SpecScan == InitScan /\ [][NextScan]_vars /\ WF_vars(NextScan)

----------------------------------------------------------------------------
(* A crash of the daemon while saveData runs.  std::ofstream f(path),       *)
(* data.cpp:222, truncates the store file when it opens it; the lines go to *)
(* the buffer of the stream and reach the file when the buffer fills and at *)
(* f.close(), data.cpp:256.  A process that dies in between leaves the      *)
(* bytes flushed so far: a prefix of the new content.  In this              *)
(* specification last keeps, after a crash, what the dead process held:     *)
(* its index, its log groups, and the store file as it was before the call. *)

\* a variant of CrashBytes for a saveData that writes a new file and renames
\* it over the store file when it is complete
CrashBytes_Rename(old, new, n) == old

\* the store file after a crash with n bytes flushed
CrashBytes(old, new, n) == SubSeq(new, 1, n)

\* an index, and the store file the point operations have left for it: one
\* line per address, written by addAddress before the engine set the record
CrashIndexes ==
    {[a \in {<<"1">>} |-> RecA], [a \in {<<"1">>, A39} |-> RecC]}

InitCrash ==
    /\ suspiciousAddresses \in CrashIndexes
    /\ logGroups \in Configs
    /\ file = Concat([i \in 1..Cardinality(DOMAIN suspiciousAddresses) |->
                        AddressLine(SortedKeys(DOMAIN suspiciousAddresses)[i], ZeroRecord)])
    /\ fileExists = TRUE
    /\ backups = NoFiles
    /\ last = Idle
    /\ steps = 0

\* saveData is called and the process dies before f.close() is done; the
\* daemon is started again
CrashSave ==
    /\ steps < MaxFileSteps
    /\ \E n \in 0..(Len(SaveBytes(suspiciousAddresses, logGroups)) - 1) :
          /\ file' = CrashBytes(file, SaveBytes(suspiciousAddresses, logGroups), n)
          /\ fileExists' = TRUE
          /\ last' = [op |-> "crashSave", index |-> suspiciousAddresses,
                      logGroups |-> logGroups, oldFile |-> file]
    /\ suspiciousAddresses' = EmptyMap
    /\ logGroups' = ResetBookmarks(logGroups)
    /\ steps' = steps + 1
    /\ UNCHANGED backups

NextCrash ==
    \/ CrashSave
    \/ steps < MaxFileSteps /\ SaveData
    \/ steps < MaxFileSteps /\ LoadData

SpecCrash == InitCrash /\ [][NextCrash]_vars

----------------------------------------------------------------------------
(* Config::load, config.cpp:40-147.  The configuration file is read line by *)
(* line; one step of the model is one pass of the while loop.  The two      *)
(* iterators of load are declared without an initialiser: libstdc++         *)
(* value-initialises them, they hold a null pointer, which is also begin()  *)
(* and end() of a vector that never allocated.  An iterator is modelled by  *)
(* the 1-based index of its element, 0 for the null iterator.               *)

\* score of a hb::Pattern that no log.score line has set
DefaultScore == 1

\* std::string::npos
npos == -1

\* std::string::find_first_of with one character: 0-based, npos when absent
FindFirstOf(s, c) ==
    IF \E i \in 1..Len(s) : s[i] = c
    THEN Min({i \in 1..Len(s) : s[i] = c}) - 1
    ELSE npos

\* regex_search with the pattern \[\S+\]
GroupSearch(line) ==
    \E i \in 1..Len(line) : \E j \in (i + 2)..Len(line) :
        /\ line[i] = "["
        /\ line[j] = "]"
        /\ \A k \in (i + 1)..(j - 1) : ~IsSpace(line[k])

KeyGlobal == <<"G", "l", "o", "b", "a", "l">>
KeyLog == <<"L", "o", "g", ".">>
KeyLogCheckInterval == <<"l", "o", "g", ".", "c", "h", "e", "c", "k", ".", "i", "n", "t", "e", "r", "v", "a", "l">>
KeyAddressBlockScore == <<"a", "d", "d", "r", "e", "s", "s", ".", "b", "l", "o", "c", "k", ".", "s", "c", "o", "r", "e">>
KeyAddressBlockMultiplier == <<"a", "d", "d", "r", "e", "s", "s", ".", "b", "l", "o", "c", "k", ".", "m", "u", "l", "t", "i", "p", "l", "i", "e", "r">>
KeyDatafilePath == <<"d", "a", "t", "a", "f", "i", "l", "e", ".", "p", "a", "t", "h">>
KeyLogPath == <<"l", "o", "g", ".", "p", "a", "t", "h">>
KeyLogPattern == <<"l", "o", "g", ".", "p", "a", "t", "t", "e", "r", "n">>
KeyLogScore == <<"l", "o", "g", ".", "s", "c", "o", "r", "e">>

NullPattern == [g |-> 0, p |-> 0]

\* std::vector::insert(it, x): x is placed before the element it points to
VectorInsert(v, it, x) == SubSeq(v, 1, it - 1) \o <<x>> \o SubSeq(v, it, Len(v))

\* line.substr(5, line.length() - 6); the length is a size_t and wraps to a
\* large value below 6
GroupName(line) ==
    Substr(line, 5, IF Len(line) >= 6 THEN Len(line) - 6 ELSE Len(line))

\* the value of a "key = value" line: ltrim(line.substr(pos + 1))
ValueOf(line) == ltrim(Substr(line, FindFirstOf(line, "=") + 1, Len(line)))

\* config.cpp:70-80, a line holding [xxx].  The new group is inserted at itlg:
\* before the group of the previous header, or into the empty vector.  The
\* groups behind it move one place up and take their patterns along, so itp
\* keeps pointing at the same pattern.  A null itlg with a vector that holds
\* elements is an insert at an address outside the vector.
GroupHandling(st, line) ==
    IF ~GroupSearch(line) THEN st
    ELSE IF Substr(line, 1, 6) = KeyGlobal THEN [st EXCEPT !.group = 0]
    ELSE IF Substr(line, 1, 4) = KeyLog THEN
        IF st.itlg = 0 /\ st.logGroups # <<>>
        THEN [st EXCEPT !.group = 1, !.pc = "crashed"]
        ELSE LET at == IF st.itlg = 0 THEN 1 ELSE st.itlg
             IN  [st EXCEPT
                    !.group = 1,
                    !.section = GroupName(line),
                    !.logGroups = VectorInsert(@, at, GroupOf(GroupName(line), <<>>)),
                    !.itlg = at,
                    !.itp = IF @.g >= at THEN [@ EXCEPT !.g = @ + 1] ELSE @]
    ELSE st

\* config.cpp:82-110, the keys of the global section
GlobalKeys(st, line) ==
    IF FindFirstOf(line, "=") = npos THEN st
    ELSE IF Substr(line, 0, 18) = KeyLogCheckInterval
         THEN [st EXCEPT !.logCheckInterval = strtoul(ValueOf(line))]
    ELSE IF Substr(line, 0, 19) = KeyAddressBlockScore
         THEN [st EXCEPT !.activityScoreToBlock = strtoul(ValueOf(line))]
    ELSE IF Substr(line, 0, 24) = KeyAddressBlockMultiplier
         THEN [st EXCEPT !.keepBlockedScoreMultiplier = strtoul(ValueOf(line))]
    ELSE IF Substr(line, 0, 13) = KeyDatafilePath
         THEN [st EXCEPT !.dataFilePath = ValueOf(line)]
    ELSE st

\* config.cpp:111-137, the keys of a log group section.  log.path and
\* log.pattern go through itlg; log.score writes through itp, which is null
\* until the first log.pattern line (the write ends the process) and is not
\* touched by a group header.
LogKeys(st, line) ==
    IF FindFirstOf(line, "=") = npos THEN st
    ELSE IF Substr(line, 0, 8) = KeyLogPath THEN
        [st EXCEPT !.key = "log.path", !.value = ValueOf(line),
                   !.logGroups[st.itlg].logFiles = Append(@, LogFileOf(ValueOf(line)))]
    ELSE IF Substr(line, 0, 11) = KeyLogPattern THEN
        [st EXCEPT !.key = "log.pattern", !.value = ValueOf(line),
                   !.logGroups[st.itlg].patterns =
                        Append(@, [pattern |-> ValueOf(line), score |-> DefaultScore]),
                   !.itp = [g |-> st.itlg,
                            p |-> Len(st.logGroups[st.itlg].patterns) + 1]]
    ELSE IF Substr(line, 0, 9) = KeyLogScore THEN
        IF st.itp = NullPattern
        THEN [st EXCEPT !.key = "log.score", !.value = ValueOf(line), !.pc = "crashed"]
        ELSE [st EXCEPT !.key = "log.score", !.value = ValueOf(line),
                        !.logGroups[st.itp.g].patterns[st.itp.p].score =
                             strtoul(ValueOf(line))]
    ELSE st

\* config.cpp:58-138, the body of the while loop for one line of the file
LoadLine(st0, raw) ==
    LET st      == [st0 EXCEPT !.n = @ + 1, !.key = "", !.value = <<>>]
        trimmed == rtrim(ltrim(raw))
    IN  IF ~(Len(trimmed) > 0 /\ trimmed[1] # "#") THEN st
        ELSE LET pos  == FindFirstOf(trimmed, "#")
                 line == IF pos # npos THEN rtrim(Substr(trimmed, 0, pos - 1))
                         ELSE trimmed
                 s1   == GroupHandling(st, line)
             IN  IF s1.pc = "crashed" THEN s1
                 ELSE IF s1.group = 0 THEN GlobalKeys(s1, line)
                 ELSE LogKeys(s1, line)

\* the lines of the configuration files
ConfigLines ==
    { <<"[", "G", "l", "o", "b", "a", "l", "]">>, <<"[", "L", "o", "g", ".", "a", "]">>, <<"[", "L", "o", "g", ".", "b", "]">>,
      <<"l", "o", "g", ".", "p", "a", "t", "h", " ", "=", " ", "/", "a">>, <<"l", "o", "g", ".", "p", "a", "t", "t", "e", "r", "n", " ", "=", " ", "[", "a", "]">>, <<"l", "o", "g", ".", "s", "c", "o", "r", "e", " ", "=", " ", "7", " ", "#", "a">>,
      <<"l", "o", "g", ".", "c", "h", "e", "c", "k", ".", "i", "n", "t", "e", "r", "v", "a", "l", " ", "=", " ", "5">> }

\* number of lines of a configuration file
MaxConfigLines == 4

ConfigFiles ==
    UNION {{Concat([i \in 1..n |-> ls[i] \o <<NL>>]) : ls \in [1..n -> ConfigLines]} :
              n \in 1..MaxConfigLines}

\* the locals and members of Config::load before the first line is read
ConfigStart ==
    [op |-> "Config::load", pc |-> "loop", n |-> 0, group |-> 0, itlg |-> 0,
     itp |-> NullPattern, section |-> <<>>, key |-> "", value |-> <<>>,
     logGroups |-> <<>>, logCheckInterval |-> 30, activityScoreToBlock |-> 10,
     keepBlockedScoreMultiplier |-> 3600, dataFilePath |-> <<>>, ret |-> FALSE]

InitConfig ==
    /\ file \in ConfigFiles
    /\ fileExists = TRUE
    /\ backups = NoFiles
    /\ suspiciousAddresses = EmptyMap
    /\ logGroups = <<>>
    /\ last = ConfigStart
    /\ steps = 0

\* getline yields a line: one pass of the loop
ConfigLoadLine ==
    /\ last.op = "Config::load" /\ last.pc = "loop"
    /\ last.n < Len(GetLines(file, 1))
    /\ \E st \in {LoadLine([last EXCEPT !.logGroups = logGroups],
                           GetLines(file, 1)[last.n + 1])} :
          /\ logGroups' = st.logGroups
          /\ last' = [st EXCEPT !.logGroups = <<>>]
    /\ UNCHANGED <<file, fileExists, backups, suspiciousAddresses, steps>>

\* getline fails at the end of the file: load returns true
ConfigLoadReturn ==
    /\ last.op = "Config::load" /\ last.pc = "loop"
    /\ last.n = Len(GetLines(file, 1))
    /\ last' = [last EXCEPT !.pc = "done", !.ret = TRUE, !.key = "", !.value = <<>>]
    /\ UNCHANGED <<file, fileExists, backups, suspiciousAddresses, logGroups, steps>>

NextConfig ==
    \/ ConfigLoadLine
    \/ ConfigLoadReturn

SpecConfig == InitConfig /\ [][NextConfig]_vars

----------------------------------------------------------------------------
(* Vocabulary of the properties *)

Lines(f) == GetLines(f, 1)

\* offset of the first byte of line k of f
RECURSIVE LineStart(_, _)
LineStart(f, k) ==
    IF k = 1 THEN 0 ELSE LineStart(f, k - 1) + Len(Lines(f)[k - 1]) + 1

\* the lines starting with 'd' whose address field is address
DataLinesFor(f, address) ==
    {k \in 1..Len(Lines(f)) :
        /\ Len(Lines(f)[k]) > AddrWidth
        /\ Lines(f)[k][1] = "d"
        /\ ltrim(SubSeq(Lines(f)[k], 2, 1 + AddrWidth)) = address}

\* the addresses with a live address line in f
LiveAddresses(f) ==
    {ltrim(SubSeq(Lines(f)[k], 2, 1 + AddrWidth)) :
        k \in {j \in 1..Len(Lines(f)) :
                  Len(Lines(f)[j]) = DataLineLen /\ Lines(f)[j][1] = "d"}}

HasDuplicates(f) == \E a \in LiveAddresses(f) : Cardinality(LiveLinesFor(f, a)) > 1

\* every line is an address line or a bookmark line in the layout of
\* data.cpp:15-40, live or marked for removal, and ends with a newline
WellFormedLine(line) ==
    /\ line # <<>>
    /\ line[1] \in {"d", "b", "r"}
    /\ \/ line[1] \in {"d", "r"} /\ Len(line) = DataLineLen
       \/ line[1] \in {"b", "r"} /\ Len(line) >= 1 + 2 * BookmarkWidth

WellFormedFile(f) ==
    /\ f = <<>> \/ f[Len(f)] = NL
    /\ \A k \in 1..Len(Lines(f)) : WellFormedLine(Lines(f)[k])

\* the fields of a record that the store file holds
SamePersisted(r, q) ==
    /\ r.lastActivity = q.lastActivity
    /\ r.activityScore = q.activityScore
    /\ r.activityCount = q.activityCount
    /\ r.refusedCount = q.refusedCount
    /\ r.whitelisted = q.whitelisted
    /\ r.blacklisted = q.blacklisted

\* the paths of the log files of the configuration
ConfiguredPaths(lg) == {AllLogFiles(lg)[i].path : i \in 1..Len(AllLogFiles(lg))}

\* the lines of f that are live bookmark lines of a path outside the configuration
OrphanLines(f, lg) ==
    {k \in 1..Len(Lines(f)) :
        /\ Len(Lines(f)[k]) >= 1 + 2 * BookmarkWidth
        /\ Lines(f)[k][1] = "b"
        /\ rtrim(ltrim(SubSeq(Lines(f)[k], 2 + 2 * BookmarkWidth, Len(Lines(f)[k]))))
              \notin ConfiguredPaths(lg)}

\* _YYYYMMDDHHMMSS.bck, appended to the data file path
IsBackupName(n) ==
    /\ Len(n) = 19
    /\ n[1] = "_"
    /\ \A i \in 2..15 : IsDigit(n[i])
    /\ SubSeq(n, 16, 19) = <<".", "b", "c", "k">>

----------------------------------------------------------------------------
(* C1 *)

\* C1: a restart that runs loadData on the file left by protocol-respecting
\* operations yields an index with the same keys and the same persisted field
\* values as the index in memory before the restart.
C1_RestartRestoresIndex ==
    [][last'.op = "restartLoad" =>
          /\ last'.ret
          /\ DOMAIN suspiciousAddresses' = DOMAIN suspiciousAddresses
          /\ \A a \in DOMAIN suspiciousAddresses :
                SamePersisted(suspiciousAddresses'[a], suspiciousAddresses[a])]_vars

----------------------------------------------------------------------------
(* C2 *)

Persisted(rec) ==
    [rec EXCEPT !.blacklisted = rec.blacklisted /\ ~rec.whitelisted,
                !.iptableRule = FALSE]

\* C2 as stated: saveData followed by loadData yields an index equal field for
\* field to the index before saveData, for any addresses of at most 39
\* characters and any combination of field values.
C2_RoundTripExact ==
    [][(last.op = "saveData" /\ last.ret /\ last'.op = "loadData") =>
          suspiciousAddresses' = suspiciousAddresses]_vars

\* C2 amended: when no address begins with white space or holds a newline,
\* saveData followed by loadData succeeds and yields the same keys with the same
\* lastActivity, activityScore, activityCount, refusedCount and whitelisted;
\* blacklisted is kept unless whitelisted is set too, and then loaded false;
\* iptableRule is loaded false.
C2_RoundTripPersisted ==
    [][(/\ last.op = "saveData" /\ last.ret /\ last'.op = "loadData"
        /\ \A a \in DOMAIN suspiciousAddresses : Canonical(a)) =>
          /\ last'.ret
          /\ suspiciousAddresses' =
                [a \in DOMAIN suspiciousAddresses |-> Persisted(suspiciousAddresses[a])]]_vars

\* loadData has run right after a successful saveData of an index that holds
\* the 39 character address and a record with both flags set
C2_Witness ==
    /\ last.op = "loadData" /\ last.afterSave /\ last.ret
    /\ A39 \in DOMAIN suspiciousAddresses
    /\ \E a \in DOMAIN suspiciousAddresses :
          /\ suspiciousAddresses[a].whitelisted
          /\ suspiciousAddresses[a].activityScore = RecB.activityScore
    /\ \A a \in DOMAIN suspiciousAddresses : Canonical(a)
    /\ Cardinality(DOMAIN suspiciousAddresses) = 2

----------------------------------------------------------------------------
(* C3 *)

\* C3: updateAddress(a) on a store file of well-formed lines with a live 'd'
\* line for a leaves the length of the file unchanged and changes no byte
\* outside the payload (bytes 41..92) of one live line of a.
C3_UpdateChangesPayloadOnly ==
    [][(/\ last'.op = "updateAddress"
        /\ WellFormedFile(file)
        /\ LiveLinesFor(file, last'.address) # {}) =>
          /\ Len(file') = Len(file)
          /\ \E k \in LiveLinesFor(file, last'.address) :
                \A i \in 1..Len(file) :
                    file'[i] # file[i] =>
                        /\ i > LineStart(file, k) + 1 + AddrWidth
                        /\ i <= LineStart(file, k) + DataLineLen]_vars

\* updateAddress has rewritten the payload of a line that is not the first
\* line of the file
C3_Witness ==
    /\ last.op = "updateAddress" /\ last.ret /\ last.changed
    /\ WellFormedFile(file)
    /\ LiveLinesFor(file, last.address) # {}
    /\ \A k \in LiveLinesFor(file, last.address) : k > 1

----------------------------------------------------------------------------
(* C4 *)

\* C4: removeAddress(a) on a store file with a live 'd' line for a changes
\* exactly one byte, the type byte of a live line of a, which becomes 'r'.
\* (Stated for a store file that removeAddress can open.)
C4_RemoveChangesOneByte ==
    [][(/\ last'.op = "removeAddress"
        /\ ~last'.ioError
        /\ LiveLinesFor(file, last'.address) # {}) =>
          \E k \in LiveLinesFor(file, last'.address) :
              file' = [file EXCEPT ![LineStart(file, k) + 1] = "r"]]_vars

----------------------------------------------------------------------------
(* C5 *)

\* C5: when loadData reads a file with several live 'd' lines for an address,
\* the record in memory has the field values of the first of them.
C5_FirstOccurrenceWins ==
    [][(last'.op = "loadData" /\ fileExists) =>
          \A a \in LiveAddresses(file) :
              Cardinality(LiveLinesFor(file, a)) > 1 =>
                  /\ a \in DOMAIN suspiciousAddresses'
                  /\ suspiciousAddresses'[a] =
                        ParseRecord(Lines(file)[Min(LiveLinesFor(file, a))])]_vars

\* loadData has read two lines of one address with different values (the file
\* it read is now the backup) and kept the values of the first
C5_Witness ==
    /\ last.op = "loadData" /\ last.renamed
    /\ \E a \in DOMAIN suspiciousAddresses :
          LET old == backups[last.bck]
              ks  == LiveLinesFor(old, a)
          IN  /\ Cardinality(ks) = 2
              /\ \E k \in ks : k # Min(ks) /\
                    ParseRecord(Lines(old)[k]) # ParseRecord(Lines(old)[Min(ks)])
              /\ suspiciousAddresses[a] = ParseRecord(Lines(old)[Min(ks)])

----------------------------------------------------------------------------
(* C6 *)

\* C6: when loadData succeeds on a file with duplicate address lines, exactly
\* one backup file, named _YYYYMMDDHHMMSS.bck after the data file path, is
\* created with the bytes the store file had, and the store file then holds
\* exactly one 'd' line per address of the index and none for another address.
C6_DuplicateRecovery ==
    [][(/\ last'.op = "loadData" /\ fileExists /\ HasDuplicates(file)
        /\ last'.ret) =>
          /\ IsBackupName(last'.bck)
          /\ last'.bck \notin DOMAIN backups
          /\ DOMAIN backups' = DOMAIN backups \cup {last'.bck}
          /\ backups'[last'.bck] = file
          /\ \A n \in DOMAIN backups : backups'[n] = backups[n]
          /\ fileExists'
          /\ \A a \in DOMAIN suspiciousAddresses' :
                Cardinality(DataLinesFor(file', a)) = 1
          /\ \A k \in 1..Len(Lines(file')) :
                Lines(file')[k][1] = "d" =>
                    \E a \in DOMAIN suspiciousAddresses' : k \in DataLinesFor(file', a)]_vars

\* loadData has succeeded on a file with duplicates while another backup file
\* existed
C6_Witness ==
    /\ last.op = "loadData" /\ last.ret /\ last.duplicatesFound /\ last.renamed
    /\ Cardinality(DOMAIN backups) = 2
    /\ suspiciousAddresses # EmptyMap

----------------------------------------------------------------------------
(* C7 *)

\* C7: if loadData found duplicates and a backup file of the computed name
\* exists, or the rename fails, loadData returns failure, runs no compaction,
\* and leaves the store file and the existing backup files unchanged.
C7_BackupFailureLeavesFiles ==
    [][(/\ last'.op = "loadData" /\ fileExists /\ HasDuplicates(file)
        /\ \/ last'.bck \in DOMAIN backups
           \/ last'.ioError /\ ~last'.renamed) =>
          /\ ~last'.ret
          /\ fileExists' /\ file' = file
          /\ backups' = backups]_vars

\* loadData has found duplicates and a backup file of the computed name
C7_Witness ==
    /\ last.op = "loadData" /\ last.duplicatesFound /\ ~last.ret
    /\ ~last.ioError /\ ~last.renamed
    /\ last.bck \in DOMAIN backups
    /\ HasDuplicates(file)

----------------------------------------------------------------------------
(* C8 *)

\* C8: after loadData returns no record of the index has whitelisted and
\* blacklisted both true, and a line with both flags 'y' is loaded with
\* whitelisted true and blacklisted false.
C8_WhitelistDominance ==
    [][last'.op = "loadData" =>
          /\ \A a \in DOMAIN suspiciousAddresses' :
                ~(suspiciousAddresses'[a].whitelisted /\ suspiciousAddresses'[a].blacklisted)
          /\ fileExists =>
                \A a \in LiveAddresses(file) :
                    LET first == Lines(file)[Min(LiveLinesFor(file, a))]
                    IN  (first[91] = "y" /\ first[92] = "y") =>
                            /\ suspiciousAddresses'[a].whitelisted
                            /\ ~suspiciousAddresses'[a].blacklisted]_vars

----------------------------------------------------------------------------
(* C9 *)

\* C9: a 'b' line whose path matches no log file of the configuration is no
\* live line of the store file when loadData returns, and the bookmark of a log
\* file with no 'b' line of its path in the file is not changed.
C9_OrphanBookmarkPruned ==
    [][(last'.op = "loadData" /\ fileExists /\ OrphanLines(file, logGroups) # {}) =>
          /\ OrphanLines(file', logGroups') = {}
          /\ \A g \in 1..Len(logGroups) : \A i \in 1..Len(logGroups[g].logFiles) :
                (\A k \in 1..Len(Lines(file)) :
                    Lines(file)[k][1] = "b" =>
                        rtrim(ltrim(SubSeq(Lines(file)[k], 2 + 2 * BookmarkWidth,
                                           Len(Lines(file)[k]))))
                            # logGroups[g].logFiles[i].path)
                => logGroups'[g].logFiles[i] = logGroups[g].logFiles[i]]_vars

----------------------------------------------------------------------------
(* C10 *)

\* C10: loadData called when the store file does not exist returns success,
\* leaves the index empty and leaves a store file with one 'b' line per log
\* file of the configuration and nothing else, whatever the index held.
\* (Stated for a store file that saveData can create.)
C10_MissingFileGivesEmptyStore ==
    [][(last'.op = "loadData" /\ ~fileExists /\ ~last'.ioError) =>
          /\ last'.ret
          /\ suspiciousAddresses' = EmptyMap
          /\ fileExists'
          /\ file' = Concat([i \in 1..Len(AllLogFiles(logGroups)) |->
                                BookmarkLine(AllLogFiles(logGroups)[i])])]_vars

----------------------------------------------------------------------------
(* C11 *)

\* line is the 'd' line of 92 bytes that holds address and the values of rec
HoldsRecord(line, address, rec) ==
    /\ Len(line) = DataLineLen
    /\ line[1] = "d"
    /\ ltrim(SubSeq(line, 2, 40)) = address
    /\ strtoul(SubSeq(line, 41, 60)) = rec.lastActivity
    /\ strtoul(SubSeq(line, 61, 70)) = rec.activityScore
    /\ strtoul(SubSeq(line, 71, 80)) = rec.activityCount
    /\ strtoul(SubSeq(line, 81, 90)) = rec.refusedCount
    /\ line[91] = Flag(rec.whitelisted)
    /\ line[92] = Flag(rec.blacklisted)

\* line is the 'b' line that holds the bookmark, the size and the path of lf
HoldsBookmark(line, lf) ==
    /\ Len(line) = 1 + 2 * BookmarkWidth + Len(lf.path)
    /\ line[1] = "b"
    /\ strtoul(SubSeq(line, 2, 21)) = lf.bookmark
    /\ strtoul(SubSeq(line, 22, 41)) = lf.size
    /\ SubSeq(line, 42, Len(line)) = lf.path

\* C11: after a successful saveData, whatever the store file held, the file is
\* one 'd' line per entry of the index followed by one 'b' line per log file
\* of the configuration, with no line that begins with 'r' and no other line.
C11_SaveWritesIndexAndBookmarks ==
    [][(last'.op = "saveData" /\ last'.ret) =>
          LET ls  == Lines(file')
              n   == Cardinality(DOMAIN suspiciousAddresses)
              lfs == AllLogFiles(logGroups)
          IN  /\ fileExists'
              /\ file' = <<>> \/ file'[Len(file')] = NL
              /\ Len(ls) = n + Len(lfs)
              /\ \A a \in DOMAIN suspiciousAddresses :
                    Cardinality({i \in 1..n :
                        HoldsRecord(ls[i], a, suspiciousAddresses[a])}) = 1
              /\ \A j \in 1..Len(lfs) : HoldsBookmark(ls[n + j], lfs[j])
              /\ \A i \in 1..Len(ls) : ls[i][1] # "r"]_vars

\* saveData has replaced a store file that held other lines by the lines of
\* two addresses and of a log file
C11_Witness ==
    /\ last.op = "saveData" /\ last.ret /\ last.changed /\ steps = 1
    /\ Cardinality(DOMAIN suspiciousAddresses) = 2
    /\ AllLogFiles(logGroups) # <<>>
    /\ Len(Lines(file)) = 3

----------------------------------------------------------------------------
(* C12 *)

\* the lines that are the removed line of address: 'r' over the type byte
RemovedLinesFor(f, address) ==
    {k \in 1..Len(Lines(f)) :
        /\ Len(Lines(f)[k]) = DataLineLen
        /\ Lines(f)[k][1] = "r"
        /\ ltrim(SubSeq(Lines(f)[k], 2, 1 + AddrWidth)) = address}

\* C12: updateAddress(a) and removeAddress(a) on a store file with no 'd' line
\* for a (a was never appended, or its line is removed) return failure and
\* leave the store file as it is.
C12_AbsentAddressFails ==
    [][(/\ last'.op \in {"updateAddress", "removeAddress"}
        /\ DataLinesFor(file, last'.address) = {}) =>
          /\ ~last'.ret
          /\ file' = file
          /\ fileExists' = fileExists]_vars

\* updateAddress has scanned a store file that holds the removed line of the
\* address and has failed
C12_Witness ==
    /\ last.op = "updateAddress" /\ last.opened /\ ~last.ret
    /\ RemovedLinesFor(file, last.address) # {}
    /\ DataLinesFor(file, last.address) = {}

----------------------------------------------------------------------------
(* C13 *)

\* the lines of f that are live bookmark lines of path
BookmarkLinesFor(f, path) ==
    {k \in 1..Len(Lines(f)) :
        /\ Len(Lines(f)[k]) >= 1 + 2 * BookmarkWidth
        /\ Lines(f)[k][1] = "b"
        /\ rtrim(ltrim(SubSeq(Lines(f)[k], 2 + 2 * BookmarkWidth, Len(Lines(f)[k])))) = path}

\* the log files of the configuration with this path
LogFilesOf(lg, path) ==
    {i \in 1..Len(AllLogFiles(lg)) : AllLogFiles(lg)[i].path = path}

\* C13: addFile(path) for a configured log file with no 'b' line in the store
\* appends one 'b' line with its bookmark and size and returns success;
\* updateFile(path) for a log file with a live 'b' line writes the bookmark and
\* the size over the 40 bytes after the type byte of that line, keeps the
\* length of the file, and returns success.
C13_BookmarkPointOperations ==
    [][/\ (/\ last'.op = "addFile"
           /\ LogFilesOf(logGroups, last'.address) # {}
           /\ BookmarkLinesFor(file, last'.address) = {}) =>
              /\ last'.ret
              /\ \E i \in LogFilesOf(logGroups, last'.address) :
                    file' = file \o BookmarkLine(AllLogFiles(logGroups)[i])
       /\ (/\ last'.op = "updateFile"
           /\ fileExists
           /\ LogFilesOf(logGroups, last'.address) # {}
           /\ BookmarkLinesFor(file, last'.address) # {}) =>
              /\ last'.ret
              /\ Len(file') = Len(file)
              /\ \E k \in BookmarkLinesFor(file, last'.address) :
                 \E i \in LogFilesOf(logGroups, last'.address) :
                    /\ HoldsBookmark(Lines(file')[k], AllLogFiles(logGroups)[i])
                    /\ \A j \in 1..Len(Lines(file)) :
                          j # k => Lines(file')[j] = Lines(file)[j]]_vars

----------------------------------------------------------------------------
(* C14 *)

\* C14: for every existing store file without duplicate addresses, also one
\* with tombstones, orphan bookmarks, empty lines, 'd' lines of another length
\* and 'b' lines cut short, loadData completes and returns success.
C14_LoadSucceedsWithoutDuplicates ==
    [][(last'.op = "loadData" /\ fileExists /\ ~HasDuplicates(file)) =>
          /\ ~last'.threw
          /\ last'.ret]_vars

----------------------------------------------------------------------------
(* C15 *)

\* C15: after a successful loadData on an existing store file the keys of the
\* index are the trimmed addresses of the lines that begin with 'd' and are 92
\* long; 'r' lines, 'd' lines of another length and the entries the index held
\* before contribute nothing.
C15_KeysAreLiveAddresses ==
    [][(last'.op = "loadData" /\ fileExists /\ last'.ret) =>
          DOMAIN suspiciousAddresses' = LiveAddresses(file)]_vars

\* loadData has read a file with a 'd' line of another length for one address
\* and a live line for another, and the index holds the second only
C15_Witness ==
    /\ last.op = "loadData" /\ last.ret /\ last.existed
    /\ \E k \in 1..Len(Lines(file)) :
          /\ Lines(file)[k] # <<>>
          /\ Lines(file)[k][1] = "d"
          /\ Len(Lines(file)[k]) # DataLineLen
    /\ DOMAIN suspiciousAddresses = {A39}

----------------------------------------------------------------------------
(* C16 *)

\* C16: on a store file of well-formed lines that updateAddress / removeAddress
\* can open, the scan finds the first live 'd' line of the address, whatever
\* 'd' lines, removed lines and bookmark lines (with a path of any length, the
\* empty path too) stand before it: the operation returns success and writes
\* into that line only.
C16_ScanFindsFirstLiveLine ==
    [][(/\ last'.op \in {"updateAddress", "removeAddress"}
        /\ ~last'.ioError
        /\ WellFormedFile(file)
        /\ LiveLinesFor(file, last'.address) # {}) =>
          LET k == Min(LiveLinesFor(file, last'.address))
          IN  /\ last'.found
              /\ last'.ret
              /\ Len(file') = Len(file)
              /\ \A i \in 1..Len(file) :
                    file'[i] # file[i] =>
                        /\ i > LineStart(file, k)
                        /\ i <= LineStart(file, k) + DataLineLen]_vars

----------------------------------------------------------------------------
(* C17 *)

\* every line of f that begins with 'd' or 'r' is 92 long and every line ends
\* with a newline
FixedWidth(f) ==
    /\ f = <<>> \/ f[Len(f)] = NL
    /\ \A k \in 1..Len(Lines(f)) :
          (Lines(f)[k] # <<>> /\ Lines(f)[k][1] \in {"d", "r"}) =>
              Len(Lines(f)[k]) = DataLineLen

\* C17: in every state reached from an empty store by addAddress,
\* updateAddress, removeAddress and saveData every address line, live or
\* removed, is 92 bytes and a newline, and a point operation moves the start
\* of no line.
C17_FixedWidthLines ==
    [][/\ FixedWidth(file')
       /\ last'.op \in {"addAddress", "updateAddress", "removeAddress"} =>
             /\ Len(Lines(file')) >= Len(Lines(file))
             /\ \A k \in 1..Len(Lines(file)) :
                   LineStart(file', k) = LineStart(file, k)]_vars

\* removeAddress has removed the first line of a file that holds a line of 39
\* address characters after it
C17_Witness ==
    /\ last.op = "removeAddress" /\ last.changed
    /\ RemovedLinesFor(file, last.address) = {1}
    /\ LiveLinesFor(file, A39) # {}

----------------------------------------------------------------------------
(* C18 *)

\* at most one live 'd' line per address
KeyUnique(f) == \A a \in LiveAddresses(f) : Cardinality(LiveLinesFor(f, a)) <= 1

\* C18: in every state reached from a successful loadData by operations that
\* keep the protocol the store file holds at most one live 'd' line per
\* address, and removeAddress(a) followed by a restart with loadData does not
\* bring a back.
C18_KeyUniqueInFile ==
    [][/\ KeyUnique(file')
       /\ (last.op = "removeAddress" /\ last'.op = "restartLoad") =>
             last.address \notin DOMAIN suspiciousAddresses']_vars

----------------------------------------------------------------------------
(* C19 *)

\* C19: the scan of updateAddress / removeAddress ends on every finite store
\* file, whatever it holds: every f.get(c) moves the stream forward, sets
\* failbit or ends the scan.
C19_ScanTerminates ==
    /\ [][\/ last'.pos > last.pos
          \/ last'.fail /\ ~last.fail
          \/ last'.pc = "done"]_vars
    /\ <>(last.pc = "done")

\* the scan has ended at the end of a file with no final newline, while it
\* was reading to the end of a line
C19_Witness ==
    /\ last.op = "scan" /\ last.pc = "done" /\ last.fail /\ ~last.found
    /\ file # <<>> /\ file[Len(file)] # NL
    /\ last.pos >= Len(file)

----------------------------------------------------------------------------
(* C20 *)

\* C20: for any configuration of log groups and log files, one with a path
\* declared in more than one group too, saveData followed by loadData under
\* the same configuration leaves every log file with the bookmark and the size
\* it had before saveData.
C20_BookmarkRoundTrip ==
    [][(last.op = "saveData" /\ last.ret /\ last'.op = "loadData") =>
          logGroups' = logGroups]_vars

----------------------------------------------------------------------------
(* C21 *)

\* C21: addAddress, updateAddress and removeAddress write the store file only:
\* none of them adds, removes or changes an entry of the index, also when the
\* address is not in the index.
C21_PointOperationsKeepIndex ==
    [][last'.op \in {"addAddress", "updateAddress", "removeAddress"} =>
          suspiciousAddresses' = suspiciousAddresses]_vars

----------------------------------------------------------------------------
(* C22 *)

\* s is a prefix of t and shorter than t
StrictPrefix(s, t) == Len(s) < Len(t) /\ s = SubSeq(t, 1, Len(s))

\* the index loadData yields on the store file of this state, when it returns
\* success
LoadedIndex ==
    LET st == loadData(Cur, CHOOSE tm \in Times : TRUE, TRUE, TRUE)
    IN  IF st.ret /\ ~st.threw THEN st.index ELSE EmptyMap

LoadSucceeds ==
    LET st == loadData(Cur, CHOOSE tm \in Times : TRUE, TRUE, TRUE)
    IN  st.ret /\ ~st.threw

\* C22: a crash during saveData leaves a store file that is a strict prefix
\* of the new content; a loadData after it yields no other entries than the
\* index held, and can yield fewer (the witness): addresses that were in the
\* old file and in the index are missing.
C22_CrashLeavesPrefix ==
    last.op = "crashSave" =>
        /\ fileExists
        /\ StrictPrefix(file, SaveBytes(last.index, last.logGroups))
        /\ LoadSucceeds =>
              /\ DOMAIN LoadedIndex \subseteq DOMAIN last.index
              /\ \A a \in DOMAIN LoadedIndex : LoadedIndex[a] = Persisted(last.index[a])

\* after a crash the store file is neither the old nor the new content, and
\* loadData succeeds with an index that lacks an address of the old file and
\* of the index
C22_Witness ==
    /\ last.op = "crashSave"
    /\ file # last.oldFile
    /\ file # SaveBytes(last.index, last.logGroups)
    /\ file # <<>>
    /\ LoadSucceeds
    /\ \E a \in DOMAIN last.index :
          /\ a \in LiveAddresses(last.oldFile)
          /\ a \notin DOMAIN LoadedIndex
    /\ LoadedIndex # EmptyMap

----------------------------------------------------------------------------
(* C23 *)

NamesDistinct(lg) ==
    \A i, j \in 1..Len(lg) : lg[i].name = lg[j].name => i = j

\* the group of the section the line just read stands in
SectionGroup(lg, section) == CHOOSE k \in 1..Len(lg) : lg[k].name = section

\* C23: a log.path or log.pattern line of a log section is appended to the
\* group of the [Log.*] header that most recently preceded it, and a log.score
\* line sets the score of the last declared pattern of that group; every
\* other group, and every other field, stays as it was.
C23_LinesGoToCurrentGroup ==
    [][(/\ last'.op = "Config::load"
        /\ last'.key \in {"log.path", "log.pattern", "log.score"}
        /\ last'.pc # "crashed"
        /\ NamesDistinct(logGroups)) =>
          LET k  == SectionGroup(logGroups, last'.section)
              ps == logGroups[k].patterns
          IN  /\ \E i \in 1..Len(logGroups) : logGroups[i].name = last'.section
              /\ Len(logGroups') = Len(logGroups)
              /\ \A i \in 1..Len(logGroups) : i # k => logGroups'[i] = logGroups[i]
              /\ last'.key = "log.path" =>
                    logGroups'[k] = [logGroups[k] EXCEPT
                        !.logFiles = Append(@, LogFileOf(last'.value))]
              /\ last'.key = "log.pattern" =>
                    logGroups'[k] = [logGroups[k] EXCEPT
                        !.patterns = Append(@, [pattern |-> last'.value,
                                                score |-> DefaultScore])]
              /\ last'.key = "log.score" =>
                    logGroups'[k] =
                        IF ps = <<>> THEN logGroups[k]
                        ELSE [logGroups[k] EXCEPT
                                !.patterns[Len(ps)].score = strtoul(last'.value)]]_vars

====
